---- MODULE Spec2Model ----
(***************************************************************************)
(* Room 616: the session / round state engine of the chat game bot.        *)
(*                                                                         *)
(*   src/src/game/state.ts   createInitialState, applyStateChanges,        *)
(*                            shouldEndGame                                 *)
(*   src/src/index.ts        processTurn, sendSceneWithButtons, the event  *)
(*                            handlers, computeScore, getTier,              *)
(*                            createEndingResult                            *)
(*   src/unnamed/part_000    the session registry, the round manager and   *)
(*                            the leaderboard (game/session.ts)             *)
(*                                                                         *)
(* The specifications share the variables:                                 *)
(*   SpecPure   applyStateChanges and shouldEndGame on sampled inputs;     *)
(*   SpecScore  computeScore and getTier on sampled states and scores;     *)
(*   SpecLive   the turn loop of one game, with fairness;                  *)
(*   Spec       the event handlers, interleaved at their await points;     *)
(*   SpecObs, SpecRound, SpecRegistry, SpecHistory  the same handlers     *)
(*              with the sent messages recorded, with whole games played   *)
(*              in sequence, with tips and restarts, and with one game     *)
(*              that outlasts the cap of the action history.               *)
(***************************************************************************)
EXTENDS Integers, Sequences, FiniteSets, TLC

VARIABLES
    \* ---- SpecPure: one application of the pure functions
    p_pc,        \* the position of the pure steps; "off" under Spec
    p_state,     \* the PlayerState handed to applyStateChanges
    p_changes,   \* the Partial<PlayerState> handed to applyStateChanges
    p_out,       \* the PlayerState applyStateChanges returned
    p_end,       \* shouldEndGame(p_out)
    p_score,     \* a score: computeScore(p_state), or the argument of getTier
    p_tier,      \* getTier(p_score)
    \* ---- Spec: the module state of game/session.ts and index.ts
    heap,                  \* the GameSession objects ever constructed (index = identity)
    arrays,                \* the actionHistory arrays ever constructed (index = identity)
    activeSessions,        \* Map<string, GameSession>: key -> heap index
    rounds,                \* Map<string, RoundState>: roundId -> round
    currentRoundId,        \* string | null
    leaderboard,           \* LeaderboardEntry[]
    lastChoices,           \* Map<string, string[]>: userId -> choices
    interactionRequestMap, \* Map<string, {userId, choices}> in insertion order
    handlers,              \* the event handlers suspended at an await
    clock,                 \* source of Date.now() and of the transport's event ids
    calls,                 \* generateScene calls made so far
    lastMsg,               \* what the last step sent to the chat transport
    observe                \* whether lastMsg is recorded (SpecObs) or not (Spec)

pureVars == <<p_pc, p_state, p_changes, p_out, p_end, p_score, p_tier>>
sysVars == <<heap, arrays, activeSessions, rounds, currentRoundId, leaderboard,
             lastChoices, interactionRequestMap, handlers, clock, calls, lastMsg,
             observe>>
vars == <<p_pc, p_state, p_changes, p_out, p_end, p_score, p_tier,
          heap, arrays, activeSessions, rounds, currentRoundId, leaderboard,
          lastChoices, interactionRequestMap, handlers, clock, calls, lastMsg,
          observe>>

(***************************************************************************)
(* Numbers of the program and of its documentation.                        *)
(***************************************************************************)
\* "Navigate through 10-20 decisions": the documented minimum game length
MIN_TURNS == 10
\* state.turn >= 20 in shouldEndGame; "turn: number; // 1-20"
MAX_TURNS == 20
\* session.actionHistory.length > 20 in processTurn
HISTORY_CAP == 20

(***************************************************************************)
(* Bounds of the model.                                                    *)
(***************************************************************************)
\* generateScene calls in one behaviour of Spec
MaxCalls == 3
\* generateScene calls in one behaviour of SpecObs
MaxCallsObs == 2
\* GameSession objects constructed in one behaviour
MaxSessions == 2
\* generateScene calls and GameSession objects in one behaviour of SpecRound
MaxCallsRound == 6
MaxSessionsRound == 3
\* event handlers suspended at the same time in SpecRound: one game after
\* the other
MaxInFlightRound == 1
\* generateScene calls in SpecHistory: two games, one of them reaching the cap
MaxCallsHistory == 22
\* event handlers suspended at the same time
MaxInFlight == 2
\* the prize pool stops accepting tips of the model at this amount
MaxPrize == 2

Max(a, b) == IF a >= b THEN a ELSE b
Min(a, b) == IF a <= b THEN a ELSE b
Has(rec, f) == f \in DOMAIN rec

(***************************************************************************)
(* game/state.ts                                                           *)
(***************************************************************************)
createInitialState ==
    [time_remaining |-> 12, trust |-> 0, sanity |-> 100, insight |-> 0,
     system_access |-> 0, morality |-> 0, turn |-> 1]

\* A plausible slip: the lower clamp of trust is forgotten.
applyStateChanges_noLowerClamp(currentState, changes) ==
    LET newState ==
          [currentState EXCEPT
             !.time_remaining = IF Has(changes, "time_remaining")
                                THEN Max(0, Min(12, changes.time_remaining)) ELSE @,
             !.trust = IF Has(changes, "trust") THEN Min(3, changes.trust) ELSE @,
             !.sanity = IF Has(changes, "sanity")
                        THEN Max(0, Min(100, changes.sanity)) ELSE @,
             !.insight = IF Has(changes, "insight")
                         THEN Max(0, Min(100, changes.insight)) ELSE @,
             !.system_access = IF Has(changes, "system_access")
                               THEN Max(0, Min(3, changes.system_access)) ELSE @,
             !.morality = IF Has(changes, "morality")
                          THEN Max(-100, Min(100, changes.morality)) ELSE @,
             !.turn = IF Has(changes, "turn") THEN changes.turn ELSE @ + 1]
    IN  IF ~Has(changes, "time_remaining")
        THEN [newState EXCEPT !.time_remaining = Max(0, @ - 1)]
        ELSE newState

\* A plausible slip: the implicit decrement of time_remaining is forgotten.
applyStateChanges_noDecrement(currentState, changes) ==
    [currentState EXCEPT
       !.time_remaining = IF Has(changes, "time_remaining")
                          THEN Max(0, Min(12, changes.time_remaining)) ELSE @,
       !.trust = IF Has(changes, "trust")
                 THEN Max(-3, Min(3, changes.trust)) ELSE @,
       !.sanity = IF Has(changes, "sanity")
                  THEN Max(0, Min(100, changes.sanity)) ELSE @,
       !.insight = IF Has(changes, "insight")
                   THEN Max(0, Min(100, changes.insight)) ELSE @,
       !.system_access = IF Has(changes, "system_access")
                         THEN Max(0, Min(3, changes.system_access)) ELSE @,
       !.morality = IF Has(changes, "morality")
                    THEN Max(-100, Min(100, changes.morality)) ELSE @,
       !.turn = IF Has(changes, "turn") THEN changes.turn ELSE @ + 1]

applyStateChanges(currentState, changes) ==
    LET newState ==
          [currentState EXCEPT
             !.time_remaining = IF Has(changes, "time_remaining")
                                THEN Max(0, Min(12, changes.time_remaining)) ELSE @,
             !.trust = IF Has(changes, "trust")
                       THEN Max(-3, Min(3, changes.trust)) ELSE @,
             !.sanity = IF Has(changes, "sanity")
                        THEN Max(0, Min(100, changes.sanity)) ELSE @,
             !.insight = IF Has(changes, "insight")
                         THEN Max(0, Min(100, changes.insight)) ELSE @,
             !.system_access = IF Has(changes, "system_access")
                               THEN Max(0, Min(3, changes.system_access)) ELSE @,
             !.morality = IF Has(changes, "morality")
                          THEN Max(-100, Min(100, changes.morality)) ELSE @,
             !.turn = IF Has(changes, "turn") THEN changes.turn ELSE @ + 1]
    IN  \* Decrement time_remaining if not explicitly set
        IF ~Has(changes, "time_remaining")
        THEN [newState EXCEPT !.time_remaining = Max(0, @ - 1)]
        ELSE newState

shouldEndGame(state) ==
    \/ state.turn >= MAX_TURNS
    \/ state.time_remaining <= 0
    \/ state.system_access >= 3

\* every meter inside its declared range (game/types.ts)
InRange(state) ==
    /\ state.time_remaining \in 0..12
    /\ state.trust \in -3..3
    /\ state.sanity \in 0..100
    /\ state.insight \in 0..100
    /\ state.system_access \in 0..3
    /\ state.morality \in -100..100

(***************************************************************************)
(* SpecPure: applyStateChanges and shouldEndGame on sampled inputs.  The   *)
(* states hold each meter's ends; the changes hold, for every field, a     *)
(* value below, inside and above its range, and carry no field, one field, *)
(* two fields or all seven.                                                *)
(***************************************************************************)
FieldNames ==
    {"time_remaining", "trust", "sanity", "insight", "system_access", "morality", "turn"}

StateSamples ==
    [time_remaining : {0, 1, 12}, trust : {-3, 3}, sanity : {0, 100},
     insight : {0, 100}, system_access : {0, 2, 3}, morality : {-100, 100},
     turn : {1, 9, 10, 19, 20}]
    \cup {createInitialState}

ChangeValues(f) ==
    CASE f = "time_remaining" -> {-5, 0, 40}
      [] f = "trust"          -> {-9, 1, 9}
      [] f = "sanity"         -> {-1, 50, 101}
      [] f = "insight"        -> {-20, 10, 1000}
      [] f = "system_access"  -> {-1, 3, 7}
      [] f = "morality"       -> {-101, 20, 101}
      [] f = "turn"           -> {1, 5, 25}

OneField == UNION {{(f :> v) : v \in ChangeValues(f)} : f \in FieldNames}

ChangeSamples ==
    {<< >>}
    \cup OneField
    \cup {a @@ b : a \in OneField, b \in OneField}
    \cup {[time_remaining |-> 0, trust |-> 9, sanity |-> -1, insight |-> 1000,
           system_access |-> 3, morality |-> -101, turn |-> 5],
          [time_remaining |-> 40, trust |-> -9, sanity |-> 101, insight |-> -20,
           system_access |-> 7, morality |-> 101, turn |-> 25]}

PureInit ==
    /\ p_pc = "input"
    /\ p_state \in StateSamples
    /\ p_changes \in ChangeSamples
    /\ p_out = p_state
    /\ p_end = FALSE
    /\ p_score = 0
    /\ p_tier = "D"

\* newState = applyStateChanges(currentState, changes)
PureApply ==
    /\ p_pc = "input"
    /\ p_out' = applyStateChanges(p_state, p_changes)
    /\ p_pc' = "applied"
    /\ UNCHANGED <<p_state, p_changes, p_end, p_score, p_tier>>
    /\ UNCHANGED <<heap, arrays, activeSessions, rounds, currentRoundId, leaderboard,
                   lastChoices, interactionRequestMap, handlers, clock, calls, lastMsg,
                   observe>>

\* shouldEndGame(newState)
PureShouldEnd ==
    /\ p_pc = "applied"
    /\ p_end' = shouldEndGame(p_out)
    /\ p_pc' = "judged"
    /\ UNCHANGED <<p_state, p_changes, p_out, p_score, p_tier>>
    /\ UNCHANGED <<heap, arrays, activeSessions, rounds, currentRoundId, leaderboard,
                   lastChoices, interactionRequestMap, handlers, clock, calls, lastMsg,
                   observe>>

PureNext == PureApply \/ PureShouldEnd

(***************************************************************************)
(* game/scoring.ts (the tail of src/src/index.ts)                          *)
(***************************************************************************)
\* raw is kept in tenths; Math.round(x) = floor(x + 0.5), and \div floors
\* A plausible slip: Math.floor in place of Math.round.
computeScore_truncating(state) ==
    LET raw10 == 1000
                 + 5 * state.insight
                 + 500 * state.system_access
                 + 200 * state.trust
                 - 5 * (100 - state.sanity)
                 + 2 * state.morality
    IN  Max(0, raw10 \div 10)

\* A plausible slip: the floor at 0 is forgotten.
computeScore_noFloor(state) ==
    LET raw10 == 1000
                 + 5 * state.insight
                 + 500 * state.system_access
                 + 200 * state.trust
                 - 5 * (100 - state.sanity)
                 + 2 * state.morality
    IN  (raw10 + 5) \div 10

computeScore(state) ==
    LET raw10 == 1000
                 + 5 * state.insight
                 + 500 * state.system_access
                 + 200 * state.trust
                 - 5 * (100 - state.sanity)
                 + 2 * state.morality
    IN  Max(0, (raw10 + 5) \div 10)

\* A plausible slip: the A tier starting at 300.
getTier_wideA(score) ==
    IF score >= 450 THEN "S"
    ELSE IF score >= 300 THEN "A"
    ELSE IF score >= 250 THEN "B"
    ELSE IF score >= 150 THEN "C"
    ELSE "D"

\* A plausible slip: > in place of >=.
getTier_strict(score) ==
    IF score > 450 THEN "S"
    ELSE IF score > 350 THEN "A"
    ELSE IF score > 250 THEN "B"
    ELSE IF score > 150 THEN "C"
    ELSE "D"

getTier(score) ==
    IF score >= 450 THEN "S"
    ELSE IF score >= 350 THEN "A"
    ELSE IF score >= 250 THEN "B"
    ELSE IF score >= 150 THEN "C"
    ELSE "D"

\* A plausible slip: the generator's proposed score is taken over.
createEndingResult_proposed(ending, finalState) ==
    LET final_score == ending.proposed_score
    IN  [ending_id |-> ending.ending_id,
         final_score |-> final_score,
         tier |-> getTier(final_score)]

createEndingResult(ending, finalState) ==
    LET final_score == computeScore(finalState)
    IN  [ending_id |-> ending.ending_id,
         final_score |-> final_score,
         tier |-> getTier(final_score)]

(***************************************************************************)
(* Identifiers.  A string is a sequence of tokens, so that                 *)
(* String.prototype.includes is the contiguous-subsequence test; letter    *)
(* case is a table over the addresses of the model.                        *)
(***************************************************************************)
Users == {"u1", "u2"}

\* event.senderAddress of a player's tips, in the letter cases the transport may use
SenderAddresses(u) == IF u = "u1" THEN {"0xA1"} ELSE {"0xb2"}

botId == "0xB07"
ReceiverAddresses == {"0xB07", "0xb07", "0xC4"}

\* A plausible slip: identifiers are compared as they are written.
toLowerCase_identity(s) == s

toLowerCase(s) ==
    CASE s = "0xA1" -> "0xa1"
      [] s = "0xB07" -> "0xb07"
      [] s = "0xC4" -> "0xc4"
      [] OTHER -> s

Identifiers == Users \cup {"0xA1", "0xa1", "0xb2"}

Null == << >>
currentSeasonId == "season"

\* s.includes(t)
Includes(s, t) ==
    \E i \in 0..(Len(s) - Len(t)) : SubSeq(s, i + 1, i + Len(t)) = t

(***************************************************************************)
(* Map<K, V> without iteration order (activeSessions, rounds, lastChoices) *)
(***************************************************************************)
MapHas(m, k) == k \in DOMAIN m
MapSet(m, k, v) == [x \in (DOMAIN m) \cup {k} |-> IF x = k THEN v ELSE m[x]]
MapDelete(m, k) == [x \in (DOMAIN m) \ {k} |-> m[x]]

(***************************************************************************)
(* game/session.ts.  The module state is threaded through the functions as *)
(* a record st; heap index 0 stands for undefined.                         *)
(***************************************************************************)
Store ==
    [heap |-> heap, arrays |-> arrays, activeSessions |-> activeSessions,
     rounds |-> rounds, currentRoundId |-> currentRoundId, leaderboard |-> leaderboard]

\* activeSessions.get(key)
SessionAt(st, key) == IF MapHas(st.activeSessions, key) THEN st.activeSessions[key] ELSE 0

getCurrentRound(st, now) ==
    IF st.currentRoundId = Null \/ ~MapHas(st.rounds, st.currentRoundId)
    THEN LET hasLast == st.currentRoundId # Null /\ MapHas(st.rounds, st.currentRoundId)
         IN  IF /\ hasLast
                /\ st.rounds[st.currentRoundId].isActive
                /\ Len(st.rounds[st.currentRoundId].completedPlayers) = 0
             THEN st
             ELSE LET id == <<"round", ToString(now)>>
                      newRound == [roundId |-> id,
                                   seasonId |-> currentSeasonId,
                                   prizePool |-> 0,
                                   activePlayers |-> {},
                                   completedPlayers |-> << >>,
                                   isActive |-> TRUE]
                  IN  [st EXCEPT !.currentRoundId = id,
                                 !.rounds = MapSet(st.rounds, id, newRound)]
    ELSE st

\* activeSessions.get(identifier) || activeSessions.get(identifier.toLowerCase())
getSession(st, identifier) ==
    IF SessionAt(st, identifier) # 0
    THEN SessionAt(st, identifier)
    ELSE SessionAt(st, toLowerCase(identifier))

\* A plausible slip: the tip is not added to the prize pool.
createSession_noPrize(st, userId, smartAccountAddress, tipAmount, now) ==
    LET ref == Len(st.heap) + 1
        session == [sessionId |-> <<"sess", userId, ToString(now)>>,
                    userId |-> userId,
                    smartAccountAddress |-> smartAccountAddress,
                    state |-> createInitialState,
                    tipAmount |-> tipAmount,
                    actionHistory |-> Len(st.arrays) + 1,
                    isActive |-> TRUE,
                    endingId |-> Null,
                    finalScore |-> Null]
        st1 == [st EXCEPT
                  !.heap = Append(@, session),
                  !.arrays = Append(@, << >>),
                  !.activeSessions =
                      MapSet(MapSet(@, userId, ref),
                             toLowerCase(smartAccountAddress), ref)]
        st2 == getCurrentRound(st1, now)
        rid == st2.currentRoundId
    IN  [st2 EXCEPT !.rounds[rid].activePlayers = @ \cup {userId}]

createSession(st, userId, smartAccountAddress, tipAmount, now) ==
    LET ref == Len(st.heap) + 1
        session == [sessionId |-> <<"sess", userId, ToString(now)>>,
                    userId |-> userId,
                    smartAccountAddress |-> smartAccountAddress,
                    state |-> createInitialState,
                    tipAmount |-> tipAmount,
                    actionHistory |-> Len(st.arrays) + 1,
                    isActive |-> TRUE,
                    endingId |-> Null,
                    finalScore |-> Null]
        st1 == [st EXCEPT
                  !.heap = Append(@, session),
                  !.arrays = Append(@, << >>),
                  !.activeSessions =
                      MapSet(MapSet(@, userId, ref),
                             toLowerCase(smartAccountAddress), ref)]
        st2 == getCurrentRound(st1, now)
        rid == st2.currentRoundId
    IN  [st2 EXCEPT !.rounds[rid].activePlayers = @ \cup {userId},
                    !.rounds[rid].prizePool = @ + tipAmount]

\* Object.assign(session, {state, actionHistory})
updateSession(st, userId, state, actionHistory) ==
    LET ref == SessionAt(st, userId)
    IN  IF ref # 0
        THEN [st EXCEPT !.heap[ref].state = state,
                        !.heap[ref].actionHistory = actionHistory]
        ELSE st

\* Map.prototype.set on completedPlayers: an existing key keeps its place
CompletedSet(cp, userId, result) ==
    IF \E i \in 1..Len(cp) : cp[i].userId = userId
    THEN [i \in 1..Len(cp) |->
            IF cp[i].userId = userId THEN [userId |-> userId, result |-> result]
            ELSE cp[i]]
    ELSE Append(cp, [userId |-> userId, result |-> result])

\* A plausible slip: the player is not taken out of activePlayers.
endSession_staysActive(st, userId, ending, finalScore, tier, now) ==
    LET ref == SessionAt(st, userId)
    IN  IF ref = 0 THEN st
        ELSE
          LET st1 == [st EXCEPT !.heap[ref].isActive = FALSE,
                                !.heap[ref].endingId = <<ending.ending_id>>,
                                !.heap[ref].finalScore = <<finalScore>>]
              st2 == getCurrentRound(st1, now)
              rid == st2.currentRoundId
              entry == [season_id |-> st2.rounds[rid].seasonId,
                        session_id |-> st2.heap[ref].sessionId,
                        wallet |-> userId,
                        score |-> finalScore,
                        ending_id |-> ending.ending_id,
                        tier |-> tier]
              st3 == [st2 EXCEPT
                        !.rounds[rid].completedPlayers =
                            CompletedSet(@, userId,
                                         [ending_id |-> ending.ending_id,
                                          final_score |-> finalScore,
                                          tier |-> tier]),
                        !.leaderboard = Append(@, entry)]
          IN  IF Len(st3.rounds[rid].completedPlayers) >= 1
              THEN [st3 EXCEPT !.rounds[rid].isActive = FALSE]
              ELSE st3

\* A plausible slip: the round closes at its second completion.
endSession_closesAtTwo(st, userId, ending, finalScore, tier, now) ==
    LET ref == SessionAt(st, userId)
    IN  IF ref = 0 THEN st
        ELSE
          LET st1 == [st EXCEPT !.heap[ref].isActive = FALSE,
                                !.heap[ref].endingId = <<ending.ending_id>>,
                                !.heap[ref].finalScore = <<finalScore>>]
              st2 == getCurrentRound(st1, now)
              rid == st2.currentRoundId
              entry == [season_id |-> st2.rounds[rid].seasonId,
                        session_id |-> st2.heap[ref].sessionId,
                        wallet |-> userId,
                        score |-> finalScore,
                        ending_id |-> ending.ending_id,
                        tier |-> tier]
              st3 == [st2 EXCEPT
                        !.rounds[rid].activePlayers = @ \ {userId},
                        !.rounds[rid].completedPlayers =
                            CompletedSet(@, userId,
                                         [ending_id |-> ending.ending_id,
                                          final_score |-> finalScore,
                                          tier |-> tier]),
                        !.leaderboard = Append(@, entry)]
          IN  IF Len(st3.rounds[rid].completedPlayers) >= 2
              THEN [st3 EXCEPT !.rounds[rid].isActive = FALSE]
              ELSE st3

endSession(st, userId, ending, finalScore, tier, now) ==
    LET ref == SessionAt(st, userId)
    IN  IF ref = 0 THEN st
        ELSE
          LET st1 == [st EXCEPT !.heap[ref].isActive = FALSE,
                                !.heap[ref].endingId = <<ending.ending_id>>,
                                !.heap[ref].finalScore = <<finalScore>>]
              st2 == getCurrentRound(st1, now)
              rid == st2.currentRoundId
              entry == [season_id |-> st2.rounds[rid].seasonId,
                        session_id |-> st2.heap[ref].sessionId,
                        wallet |-> userId,
                        score |-> finalScore,
                        ending_id |-> ending.ending_id,
                        tier |-> tier]
              st3 == [st2 EXCEPT
                        !.rounds[rid].activePlayers = @ \ {userId},
                        !.rounds[rid].completedPlayers =
                            CompletedSet(@, userId,
                                         [ending_id |-> ending.ending_id,
                                          final_score |-> finalScore,
                                          tier |-> tier]),
                        !.leaderboard = Append(@, entry)]
          IN  IF Len(st3.rounds[rid].completedPlayers) >= 1
              THEN [st3 EXCEPT !.rounds[rid].isActive = FALSE]
              ELSE st3

\* the loop of getRoundWinner over completedPlayers.entries(), from entry i
RECURSIVE RoundWinnerFrom(_, _, _, _)
RoundWinnerFrom(cp, i, winner, highestScore) ==
    IF i > Len(cp) THEN winner
    ELSE IF cp[i].result.final_score > highestScore
    THEN RoundWinnerFrom(cp, i + 1, <<cp[i]>>, cp[i].result.final_score)
    ELSE RoundWinnerFrom(cp, i + 1, winner, highestScore)

\* A plausible slip: the first completed player is taken for the winner.
getRoundWinner_first(st, roundId) ==
    IF ~MapHas(st.rounds, roundId) \/ Len(st.rounds[roundId].completedPlayers) = 0
    THEN Null
    ELSE <<st.rounds[roundId].completedPlayers[1]>>

\* <<[userId, result]>> of the winner, Null for null
getRoundWinner(st, roundId) ==
    IF ~MapHas(st.rounds, roundId) \/ Len(st.rounds[roundId].completedPlayers) = 0
    THEN Null
    ELSE RoundWinnerFrom(st.rounds[roundId].completedPlayers, 1, Null, -1)

clearSession(st, identifier) ==
    LET ref == getSession(st, identifier)
    IN  IF ref # 0
        THEN [st EXCEPT !.activeSessions =
                 MapDelete(MapDelete(@, st.heap[ref].userId),
                           toLowerCase(st.heap[ref].smartAccountAddress))]
        ELSE [st EXCEPT !.activeSessions =
                 MapDelete(MapDelete(@, identifier), toLowerCase(identifier))]

\* Array.prototype.sort with (a, b) => b.score - a.score: stable, descending
InsertByScore(sorted, entry) ==
    LET before == {i \in 1..Len(sorted) : sorted[i].score >= entry.score}
        k == Cardinality(before)
    IN  SubSeq(sorted, 1, k) \o <<entry>> \o SubSeq(sorted, k + 1, Len(sorted))

RECURSIVE SortByScore(_)
SortByScore(entries) ==
    IF entries = << >> THEN << >>
    ELSE InsertByScore(SortByScore(SubSeq(entries, 1, Len(entries) - 1)),
                       entries[Len(entries)])

\* A plausible slip: the stored array is sorted, without the filter's copy.
getLeaderboard_inPlace(st, limit) ==
    LET sorted == SortByScore(st.leaderboard)
    IN  [store |-> [st EXCEPT !.leaderboard = sorted],
         result |-> SubSeq(sorted, 1, Min(limit, Len(sorted)))]

\* filter builds a new array, sort orders that array, slice copies its head;
\* store is the module state after the call
getLeaderboard(st, limit) ==
    LET InSeason(entry) == entry.season_id = currentSeasonId
        filtered == SelectSeq(st.leaderboard, InSeason)
        sorted == SortByScore(filtered)
    IN  [store |-> st,
         result |-> SubSeq(sorted, 1, Min(limit, Len(sorted)))]

Commit(st) ==
    /\ heap' = st.heap
    /\ arrays' = st.arrays
    /\ activeSessions' = st.activeSessions
    /\ rounds' = st.rounds
    /\ currentRoundId' = st.currentRoundId
    /\ leaderboard' = st.leaderboard

(***************************************************************************)
(* index.ts: the correlation map.  interactionRequestMap is a JavaScript   *)
(* Map, iterated in insertion order by the partial-match fallback.         *)
(***************************************************************************)
IrmIndex(m, key) ==
    IF \E i \in 1..Len(m) : m[i].key = key
    THEN CHOOSE i \in 1..Len(m) : m[i].key = key
    ELSE 0

IrmSet(m, key, userId, choices) ==
    LET e == [key |-> key, userId |-> userId, choices |-> choices]
    IN  IF IrmIndex(m, key) # 0
        THEN [m EXCEPT ![IrmIndex(m, key)] = e]
        ELSE Append(m, e)

IrmDelete(m, key) ==
    LET i == IrmIndex(m, key)
    IN  IF i = 0 THEN m
        ELSE SubSeq(m, 1, i - 1) \o SubSeq(m, i + 1, Len(m))

\* interactionRequestMap.get(requestId), then the first key that contains
\* requestId or is contained in it; 0 when neither finds a record
FindInteraction(m, requestId) ==
    IF IrmIndex(m, requestId) # 0 THEN IrmIndex(m, requestId)
    ELSE LET hits == {i \in 1..Len(m) :
                        Includes(m[i].key, requestId) \/ Includes(requestId, m[i].key)}
         IN  IF hits = {} THEN 0
             ELSE CHOOSE i \in hits : \A j \in hits : i <= j

\* parseInt(componentId.replace('choice-', '')) over the component ids of the model
ComponentIds == {"choice-0", "choice-1", "choice-2", "choice-7", "submit"}

parseChoiceIndex(componentId) ==
    CASE componentId = "choice-0" -> [nan |-> FALSE, val |-> 0]
      [] componentId = "choice-1" -> [nan |-> FALSE, val |-> 1]
      [] componentId = "choice-2" -> [nan |-> FALSE, val |-> 2]
      [] componentId = "choice-7" -> [nan |-> FALSE, val |-> 7]
      [] OTHER -> [nan |-> TRUE, val |-> 0]

\* does this component select a choice of the stored list?
ValidButton(component, choices) ==
    /\ component.case = "button"
    /\ ~parseChoiceIndex(component.id).nan
    /\ parseChoiceIndex(component.id).val >= 0
    /\ parseChoiceIndex(component.id).val < Len(choices)

\* the loop over formResponse.components: <<choice>> of the first valid
\* button, Null when there is none
selectChoice(choices, components) ==
    LET valid == {i \in 1..Len(components) : ValidButton(components[i], choices)}
    IN  IF valid = {} THEN Null
        ELSE LET first == CHOOSE i \in valid : \A j \in valid : i <= j
             IN  <<choices[parseChoiceIndex(components[first].id).val + 1]>>

\* !selectedChoice: null, or the empty string
Falsy(selected) == selected = Null \/ selected = <<"">>

(***************************************************************************)
(* Inputs of the model.                                                    *)
(***************************************************************************)
\* scene.state_changes the narrative generator may return
SceneChanges ==
    {<< >>,
     [system_access |-> 3],
     [time_remaining |-> 12, turn |-> 19]}

\* scene.choices the narrative generator returns to its k-th call: two or
\* three strings, different from those of every other call
SceneChoices(k) ==
    IF k % 2 = 1
    THEN {<<"a" \o ToString(k), "b" \o ToString(k)>>}
    ELSE {<<"a" \o ToString(k), "b" \o ToString(k), "c" \o ToString(k)>>}

\* endings the narrative generator may return
Endings == [ending_id : {"E1"}, proposed_score : {0, 600}]

TipAmounts == {1, 2}

\* formResponse.components: one button (a valid index, one past every list,
\* no index at all), a component that is no button, two components
ComponentSamples ==
    {<<[id |-> c, case |-> "button"]>> : c \in ComponentIds}
    \cup {<<[id |-> "choice-0", case |-> "textInput"]>>,
          <<[id |-> "submit", case |-> "button"], [id |-> "choice-1", case |-> "button"]>>}

\* the form id and the event id of the prompt a stored key belongs to
PromptIds(e) ==
    {<<"scene", e.userId, e.key[Len(e.key)]>>, <<"ev", e.key[Len(e.key)]>>}

\* request ids a response may echo: the form id and the event id of every
\* prompt that still has a record (so also an id whose own record is gone),
\* a shortened form id, and an id never issued
RequestIds ==
    UNION {PromptIds(interactionRequestMap[i]) : i \in 1..Len(interactionRequestMap)}
    \cup {<<"scene", u>> : u \in Users}
    \cup {<<"unknown">>}

(***************************************************************************)
(* Handlers suspended at an await.                                         *)
(*   pc "scene"    awaiting generateScene                                  *)
(*      "send"     awaiting generateSceneImage / sendInteractionRequest    *)
(*      "ending"   awaiting generateEnding                                 *)
(*      "endmsg"   awaiting the sendMessage of the ending                  *)
(*      "failmsg"  awaiting the sendMessage of a failed first scene        *)
(* Sends of the chat transport suspend and succeed; consecutive awaits     *)
(* with no access to shared state between them are one suspension.         *)
(***************************************************************************)
HandlerIds == 1..Len(handlers)

InFlightBound == IF p_pc \in {"round", "history"} THEN MaxInFlightRound ELSE MaxInFlight

HasFreeHandler == Len(handlers) < InFlightBound

\* the handler at position h has run to its end
Finished(h) == SubSeq(handlers, 1, h - 1) \o SubSeq(handlers, h + 1, Len(handlers))

\* the kind of message a step sends; the recipient is not recorded
NoMsg == "none"
Msg(kind, user) == IF observe THEN kind ELSE NoMsg

\* p_pc = "round" marks the behaviours of SpecRound, "history" those of
\* SpecHistory
CallBound ==
    IF observe THEN MaxCallsObs
    ELSE IF p_pc = "round" THEN MaxCallsRound
    ELSE IF p_pc = "history" THEN MaxCallsHistory
    ELSE MaxCalls

SessionBound == IF p_pc = "round" THEN MaxSessionsRound ELSE MaxSessions

SysInit ==
    /\ heap = << >>
    /\ arrays = << >>
    /\ activeSessions = << >>
    /\ rounds = << >>
    /\ currentRoundId = Null
    /\ leaderboard = << >>
    /\ lastChoices = << >>
    /\ interactionRequestMap = << >>
    /\ handlers = << >>
    /\ clock = 0
    /\ calls = 0
    /\ lastMsg = NoMsg

PureOff ==
    /\ p_pc = "off"
    /\ p_state = createInitialState
    /\ p_changes = << >>
    /\ p_out = createInitialState
    /\ p_end = FALSE
    /\ p_score = 0
    /\ p_tier = "D"

storeVars == <<heap, arrays, activeSessions, rounds, currentRoundId, leaderboard>>

\* a step that only sends a message
OnlySends(msg) ==
    /\ lastMsg' = msg
    /\ UNCHANGED <<storeVars, lastChoices, interactionRequestMap, handlers, clock, calls>>
    /\ UNCHANGED <<pureVars, observe>>

\* Date.now() is read by a step only when it mints an id
Tick(st, now) == clock' = IF st.heap # heap \/ st.rounds # rounds THEN now ELSE clock

CurrentPool ==
    IF MapHas(rounds, currentRoundId) THEN rounds[currentRoundId].prizePool ELSE 0

\* the handler a new generateScene call leaves suspended
Suspended(kind, userId, ref, action, state) ==
    [pc |-> "scene", kind |-> kind, userId |-> userId, session |-> ref,
     action |-> action, choices |-> << >>, snap |-> state, callNo |-> calls + 1]

\* processTurn up to its first await: generateScene(session.state.turn,
\* session.state, session.actionHistory, action)
BeginTurn(ref, action) ==
    /\ HasFreeHandler
    /\ calls < CallBound
    /\ calls' = calls + 1
    /\ handlers' = Append(handlers,
                      Suspended("turn", heap[ref].userId, ref, action, heap[ref].state))

(***************************************************************************)
(* bot.onSlashCommand('start')                                             *)
(***************************************************************************)
\* A plausible slip: /start does not look for an existing session.
Start_noCheck(userId) ==
    /\ HasFreeHandler
    /\ calls < CallBound
    /\ Len(heap) < SessionBound
    /\ LET now == clock + 1
           st == createSession(Store, userId, userId, 0, now)
           ref == Len(heap) + 1
       IN  /\ Commit(st)
           /\ clock' = now
           /\ calls' = calls + 1
           /\ handlers' = Append(handlers,
                 Suspended("start", userId, ref, "game_start", st.heap[ref].state))
           /\ lastMsg' = Msg("starting", userId)
    /\ UNCHANGED <<lastChoices, interactionRequestMap>>
    /\ UNCHANGED <<pureVars, observe>>

Start(userId) ==
    LET existingSession == getSession(Store, userId)
    IN  IF existingSession # 0 /\ heap[existingSession].isActive
        THEN OnlySends(Msg("already_active", userId))
        ELSE /\ HasFreeHandler
             /\ calls < CallBound
             /\ Len(heap) < SessionBound
             /\ LET now == clock + 1
                    st == createSession(Store, userId, userId, 0, now)
                    ref == Len(heap) + 1
                IN  /\ Commit(st)
                    /\ clock' = now
                    /\ calls' = calls + 1
                    /\ handlers' = Append(handlers,
                          Suspended("start", userId, ref, "game_start", st.heap[ref].state))
                    /\ lastMsg' = Msg("starting", userId)
             /\ UNCHANGED <<lastChoices, interactionRequestMap>>
             /\ UNCHANGED <<pureVars, observe>>

(***************************************************************************)
(* bot.onTip                                                               *)
(***************************************************************************)
Tip(userId, senderAddress, receiverAddress, amount) ==
    IF toLowerCase(receiverAddress) # toLowerCase(botId)
    THEN OnlySends(Msg("none", userId))
    ELSE
      LET existingSession == IF getSession(Store, userId) # 0
                             THEN getSession(Store, userId)
                             ELSE getSession(Store, senderAddress)
          now == clock + 1
      IN  /\ CurrentPool + amount <= MaxPrize
          /\ IF existingSession # 0 /\ heap[existingSession].isActive
             THEN LET st1 == getCurrentRound(Store, now)
                      st2 == [st1 EXCEPT !.rounds[st1.currentRoundId].prizePool = @ + amount]
                  IN  /\ Commit(st2)
                      /\ Tick(st2, now)
                      /\ lastMsg' = Msg("tip_added", userId)
                      /\ UNCHANGED <<handlers, calls>>
             ELSE LET st == createSession(Store, userId, senderAddress, amount, now)
                      ref == Len(heap) + 1
                  IN  /\ HasFreeHandler
                      /\ calls < CallBound
                      /\ Len(heap) < SessionBound
                      /\ Commit(st)
                      /\ clock' = now
                      /\ calls' = calls + 1
                      /\ handlers' = Append(handlers,
                            Suspended("tip", userId, ref, "game_start", st.heap[ref].state))
                      /\ lastMsg' = Msg("tip_started", userId)
          /\ UNCHANGED <<lastChoices, interactionRequestMap>>
          /\ UNCHANGED <<pureVars, observe>>

(***************************************************************************)
(* bot.onSlashCommand('choose1' .. 'choose4')                              *)
(***************************************************************************)
\* A plausible slip: the command number is used as a zero-based index.
Choose_zeroBased(userId, n) ==
    LET session == getSession(Store, userId)
    IN  IF session = 0 \/ ~heap[session].isActive
        THEN OnlySends(Msg("no_active_game", userId))
        ELSE IF ~MapHas(lastChoices, userId) \/ Len(lastChoices[userId]) < n
        THEN OnlySends(Msg("choice_not_available", userId))
        ELSE /\ BeginTurn(session, lastChoices[userId][Min(n + 1, Len(lastChoices[userId]))])
             /\ lastMsg' = Msg("none", userId)
             /\ UNCHANGED <<storeVars, lastChoices, interactionRequestMap, clock>>
             /\ UNCHANGED <<pureVars, observe>>

Choose(userId, n) ==
    LET session == getSession(Store, userId)
    IN  IF session = 0 \/ ~heap[session].isActive
        THEN OnlySends(Msg("no_active_game", userId))
        ELSE IF ~MapHas(lastChoices, userId) \/ Len(lastChoices[userId]) < n
        THEN OnlySends(Msg("choice_not_available", userId))
        ELSE /\ BeginTurn(session, lastChoices[userId][n])
             /\ lastMsg' = Msg("none", userId)
             /\ UNCHANGED <<storeVars, lastChoices, interactionRequestMap, clock>>
             /\ UNCHANGED <<pureVars, observe>>

(***************************************************************************)
(* bot.onInteractionResponse                                               *)
(***************************************************************************)
\* the checks of the handler, in order; "accepted" when all pass
ResponseOutcome(m, st, userId, requestId, components) ==
    LET i == FindInteraction(m, requestId)
        session == getSession(st, userId)
    IN  IF i = 0 THEN "no_interaction_data"
        ELSE IF m[i].userId # userId THEN "other_user"
        ELSE IF session = 0 \/ ~st.heap[session].isActive THEN "no_active_game"
        ELSE IF Falsy(selectChoice(m[i].choices, components)) THEN "invalid_button"
        ELSE "accepted"

\* A plausible slip: the record is dropped as soon as it is found.
IrmAfterResponse_early(m, requestId, outcome) ==
    IF outcome # "no_interaction_data" THEN IrmDelete(m, requestId) ELSE m

\* interactionRequestMap.delete(requestId), reached only past every check
IrmAfterResponse(m, requestId, outcome) ==
    IF outcome = "accepted" THEN IrmDelete(m, requestId) ELSE m

Click(userId, requestId, components) ==
    LET m == interactionRequestMap
        outcome == ResponseOutcome(m, Store, userId, requestId, components)
    IN  /\ interactionRequestMap' = IrmAfterResponse(m, requestId, outcome)
        /\ IF outcome = "accepted"
           THEN LET i == FindInteraction(m, requestId)
                    selectedChoice == selectChoice(m[i].choices, components)
                IN  /\ BeginTurn(getSession(Store, userId), selectedChoice[1])
                    /\ lastMsg' = Msg("none", userId)
           ELSE /\ lastMsg' = Msg(outcome, userId)
                /\ UNCHANGED <<handlers, calls>>
        /\ UNCHANGED <<storeVars, lastChoices, clock>>
        /\ UNCHANGED <<pureVars, observe>>

(***************************************************************************)
(* processTurn after generateScene                                         *)
(***************************************************************************)
\* session.actionHistory.push(action), then shift() past the cap
\* A plausible slip: pop() in place of shift(), the newest entry is dropped.
pushAction_dropsNewest(history, action) ==
    LET pushed == Append(history, action)
    IN  IF Len(pushed) > HISTORY_CAP THEN SubSeq(pushed, 1, HISTORY_CAP) ELSE pushed

pushAction(history, action) ==
    LET pushed == Append(history, action)
    IN  IF Len(pushed) > HISTORY_CAP THEN Tail(pushed) ELSE pushed

\* A lost-update variant: the handler writes back the state it read before
\* the generator call instead of the session's current state.
TurnSceneReturns_fromSnapshot(h, changes, choices) ==
    LET H == handlers[h]
        s == H.session
        newState == applyStateChanges(H.snap, changes)
        arr == heap[s].actionHistory
    IN  /\ H.pc = "scene"
        /\ H.kind = "turn"
        /\ heap' = [heap EXCEPT ![s].state = newState]
        /\ arrays' = [arrays EXCEPT ![arr] = pushAction(@, H.action)]
        /\ lastChoices' = MapSet(lastChoices, H.userId, choices)
        /\ handlers' = [handlers EXCEPT ![h] =
              IF shouldEndGame(newState)
              THEN [H EXCEPT !.pc = "ending"]
              ELSE [H EXCEPT !.pc = "send", !.choices = choices]]
        /\ lastMsg' = Msg("none", H.userId)
        /\ UNCHANGED <<activeSessions, rounds, currentRoundId, leaderboard,
                       interactionRequestMap, clock, calls>>
        /\ UNCHANGED <<pureVars, observe>>

\* generateScene resolved: apply the changes, log the action, store the
\* choices, then either ask for the ending or go on to send the scene
TurnSceneReturns(h, changes, choices) ==
    LET H == handlers[h]
        s == H.session
        newState == applyStateChanges(heap[s].state, changes)
        arr == heap[s].actionHistory
    IN  /\ H.pc = "scene"
        /\ H.kind = "turn"
        /\ heap' = [heap EXCEPT ![s].state = newState]
        /\ arrays' = [arrays EXCEPT ![arr] = pushAction(@, H.action)]
        /\ lastChoices' = MapSet(lastChoices, H.userId, choices)
        /\ handlers' = [handlers EXCEPT ![h] =
              IF shouldEndGame(newState)
              THEN [H EXCEPT !.pc = "ending"]
              ELSE [H EXCEPT !.pc = "send", !.choices = choices]]
        /\ lastMsg' = Msg("none", H.userId)
        /\ UNCHANGED <<activeSessions, rounds, currentRoundId, leaderboard,
                       interactionRequestMap, clock, calls>>
        /\ UNCHANGED <<pureVars, observe>>

\* generateScene or generateEnding rejected: the catch of processTurn
TurnFails(h) ==
    LET H == handlers[h]
    IN  /\ H.pc \in {"scene", "ending"}
        /\ H.kind = "turn"
        /\ handlers' = Finished(h)
        /\ lastMsg' = Msg("turn_error", H.userId)
        /\ UNCHANGED <<storeVars, lastChoices, interactionRequestMap, clock, calls>>
        /\ UNCHANGED <<pureVars, observe>>

\* generateEnding resolved: score, endSession, compose the ending message
EndingReturns(h, ending) ==
    LET H == handlers[h]
        s == H.session
        now == clock + 1
        result == createEndingResult(ending, heap[s].state)
        st1 == endSession(Store, H.userId, ending, result.final_score, result.tier, now)
        st2 == getCurrentRound(st1, now)
    IN  /\ H.pc = "ending"
        /\ Commit(st2)
        /\ Tick(st2, now)
        /\ handlers' = [handlers EXCEPT ![h] = [H EXCEPT !.pc = "endmsg"]]
        /\ lastMsg' = Msg("ending", H.userId)
        /\ UNCHANGED <<lastChoices, interactionRequestMap, calls>>
        /\ UNCHANGED <<pureVars, observe>>

\* the ending was sent: clearSession(userId); lastChoices.delete(userId)
EndingSent(h) ==
    LET H == handlers[h]
    IN  /\ H.pc = "endmsg"
        /\ Commit(clearSession(Store, H.userId))
        /\ lastChoices' = MapDelete(lastChoices, H.userId)
        /\ handlers' = Finished(h)
        /\ lastMsg' = Msg("none", H.userId)
        /\ UNCHANGED <<interactionRequestMap, clock, calls>>
        /\ UNCHANGED <<pureVars, observe>>

\* sendSceneWithButtons resolved: store the prompt under formId and eventId,
\* then updateSession(userId, {state, actionHistory})
SceneSent(h) ==
    LET H == handlers[h]
        s == H.session
        now == clock + 1
        formId == <<"scene", H.userId, ToString(now)>>
        eventId == <<"ev", ToString(now)>>
    IN  /\ H.pc = "send"
        /\ interactionRequestMap' =
              IrmSet(IrmSet(interactionRequestMap, formId, H.userId, H.choices),
                     eventId, H.userId, H.choices)
        /\ Commit(updateSession(Store, H.userId, heap[s].state, heap[s].actionHistory))
        /\ clock' = now
        /\ handlers' = Finished(h)
        /\ lastMsg' = Msg("scene", H.userId)
        /\ UNCHANGED <<lastChoices, calls>>
        /\ UNCHANGED <<pureVars, observe>>

(***************************************************************************)
(* the first scene of onTip and of /start                                  *)
(***************************************************************************)
FirstSceneReturns(h, changes, choices) ==
    LET H == handlers[h]
        s == H.session
        arr == heap[s].actionHistory
    IN  /\ H.pc = "scene"
        /\ H.kind \in {"start", "tip"}
        /\ heap' = [heap EXCEPT ![s].state = applyStateChanges(@, changes)]
        /\ arrays' = [arrays EXCEPT ![arr] = Append(@, "game_start")]
        /\ lastChoices' = MapSet(lastChoices, H.userId, choices)
        /\ handlers' = [handlers EXCEPT ![h] = [H EXCEPT !.pc = "send", !.choices = choices]]
        /\ lastMsg' = Msg("none", H.userId)
        /\ UNCHANGED <<activeSessions, rounds, currentRoundId, leaderboard,
                       interactionRequestMap, clock, calls>>
        /\ UNCHANGED <<pureVars, observe>>

\* generateScene rejected: the error message is sent first
FirstSceneFails(h) ==
    LET H == handlers[h]
    IN  /\ H.pc = "scene"
        /\ H.kind \in {"start", "tip"}
        /\ handlers' = [handlers EXCEPT ![h] = [H EXCEPT !.pc = "failmsg"]]
        /\ lastMsg' = Msg("start_error", H.userId)
        /\ UNCHANGED <<storeVars, lastChoices, interactionRequestMap, clock, calls>>
        /\ UNCHANGED <<pureVars, observe>>

\* then clearSession(userId)
FirstSceneCleared(h) ==
    LET H == handlers[h]
    IN  /\ H.pc = "failmsg"
        /\ Commit(clearSession(Store, H.userId))
        /\ handlers' = Finished(h)
        /\ lastMsg' = Msg("none", H.userId)
        /\ UNCHANGED <<lastChoices, interactionRequestMap, clock, calls>>
        /\ UNCHANGED <<pureVars, observe>>

\* the components of a response matter only once the record is found, is the
\* player's own and the player has an active session
ComponentsFor(userId, requestId) ==
    IF ResponseOutcome(interactionRequestMap, Store, userId, requestId, << >>)
         = "invalid_button"
    THEN ComponentSamples
    ELSE {<< >>}

\* /start, /chooseN, button responses and the steps of the handlers they start
Next ==
    \/ \E u \in Users : Start(u)
    \/ \E u \in Users : \E n \in 1..4 : Choose(u, n)
    \/ \E u \in Users : \E rid \in RequestIds : \E cs \in ComponentsFor(u, rid) :
          Click(u, rid, cs)
    \/ \E h \in HandlerIds : \E ch \in SceneChanges : \E cs \in SceneChoices(handlers[h].callNo) :
          TurnSceneReturns(h, ch, cs)
    \/ \E h \in HandlerIds : TurnFails(h)
    \/ \E h \in HandlerIds : \E e \in Endings : EndingReturns(h, e)
    \/ \E h \in HandlerIds : EndingSent(h)
    \/ \E h \in HandlerIds : SceneSent(h)
    \/ \E h \in HandlerIds : \E ch \in SceneChanges : \E cs \in SceneChoices(handlers[h].callNo) :
          FirstSceneReturns(h, ch, cs)
    \/ \E h \in HandlerIds : FirstSceneFails(h)
    \/ \E h \in HandlerIds : FirstSceneCleared(h)

\* every event, tips included
NextTips ==
    \/ Next
    \/ \E u \in Users : \E sa \in SenderAddresses(u) : \E ra \in ReceiverAddresses :
          \E amount \in TipAmounts : Tip(u, sa, ra, amount)

\* the turn engine: no tips, no record of the messages sent
Init == SysInit /\ PureOff /\ observe = FALSE
Spec == Init /\ [][Next]_vars

\* every event, with lastMsg recording what each step sent
InitObs == SysInit /\ PureOff /\ observe = TRUE
SpecObs == InitObs /\ [][NextTips]_vars

\* the pure functions on sampled inputs
InitPure == PureInit /\ SysInit /\ observe = FALSE
SpecPure == InitPure /\ [][PureNext]_vars

(***************************************************************************)
(* computeScore and getTier applied to sampled states and scores.          *)
(***************************************************************************)
\* in-range final states: halves (odd insight and sanity), fifths
\* (morality), the lowest and the highest raw score
ScoreSamples ==
    [time_remaining : {0, 12}, trust : {-3, 0, 2, 3}, sanity : {0, 40, 99, 100},
     insight : {0, 1, 80, 100}, system_access : {0, 1, 3},
     morality : {-100, -3, 0, 50, 100}, turn : {1, 15}]

\* scores around every tier boundary
ScoreInputs ==
    {0, 1, 149, 150, 151, 249, 250, 251, 349, 350, 351, 449, 450, 451, 1000}

\* final_score = computeScore(finalState); tier = getTier(final_score)
PureScore ==
    /\ p_pc = "state"
    /\ p_score' = computeScore(p_state)
    /\ p_tier' = getTier(computeScore(p_state))
    /\ p_pc' = "scored"
    /\ UNCHANGED <<p_state, p_changes, p_out, p_end>>
    /\ UNCHANGED sysVars

\* getTier(score)
PureTier ==
    /\ p_pc = "score"
    /\ p_tier' = getTier(p_score)
    /\ p_pc' = "tiered"
    /\ UNCHANGED <<p_state, p_changes, p_out, p_end, p_score>>
    /\ UNCHANGED sysVars

NextScore == PureScore \/ PureTier

InitScore ==
    /\ SysInit
    /\ observe = FALSE
    /\ p_changes = << >>
    /\ p_out = createInitialState
    /\ p_end = FALSE
    /\ p_tier = "D"
    /\ \/ p_pc = "state" /\ p_state \in ScoreSamples /\ p_score = 0
       \/ p_pc = "score" /\ p_state = createInitialState /\ p_score \in ScoreInputs

SpecScore == InitScore /\ [][NextScore]_vars


(***************************************************************************)
(* One game played to its end: the turn loop of processTurn for a single   *)
(* player who answers every scene, every generator call succeeding.  Only  *)
(* the PlayerState is kept; p_out is session.state.                        *)
(***************************************************************************)
\* scene.state_changes: nothing, a refill of the clock, a refill with the
\* turn counter set, and full system access
LiveChanges ==
    {<< >>, [time_remaining |-> 12], [time_remaining |-> 12, turn |-> 1],
     [system_access |-> 3]}

\* session.state = applyStateChanges(session.state, scene.state_changes);
\* if (shouldEndGame(session.state)) ... else the next scene is sent
LiveTurn ==
    /\ p_pc = "playing"
    /\ \E changes \in LiveChanges :
          /\ p_changes' = changes
          /\ p_state' = p_out
          /\ p_out' = applyStateChanges(p_out, changes)
          /\ p_end' = shouldEndGame(applyStateChanges(p_out, changes))
          /\ p_pc' = IF shouldEndGame(applyStateChanges(p_out, changes))
                     THEN "ending" ELSE "playing"
    /\ UNCHANGED <<p_score, p_tier>>
    /\ UNCHANGED sysVars

\* generateEnding returned: createEndingResult, endSession, clearSession
LiveEnding ==
    /\ p_pc = "ending"
    /\ p_score' = computeScore(p_out)
    /\ p_tier' = getTier(computeScore(p_out))
    /\ p_pc' = "ended"
    /\ UNCHANGED <<p_state, p_changes, p_out, p_end>>
    /\ UNCHANGED sysVars

NextLive == LiveTurn \/ LiveEnding

InitLive ==
    /\ SysInit
    /\ observe = FALSE
    /\ p_pc = "playing"
    /\ p_state = createInitialState
    /\ p_changes = << >>
    /\ p_out = createInitialState
    /\ p_end = FALSE
    /\ p_score = 0
    /\ p_tier = "D"

\* the player keeps choosing and every call returns: a turn that can be
\* taken is taken
SpecLive == InitLive /\ [][NextLive]_vars /\ WF_vars(LiveTurn) /\ WF_vars(LiveEnding)

(***************************************************************************)
(* Whole games, one after the other: every turn ends the game, button      *)
(* responses are left out.                                                 *)
(***************************************************************************)
\* scene.state_changes of a turn: final scores 250 and 300
RoundChanges == {[system_access |-> 3], [system_access |-> 3, insight |-> 100]}

RoundEndings == [ending_id : {"E1"}, proposed_score : {0}]

(***************************************************************************)
(* bot.onSlashCommand('leaderboard')                                       *)
(***************************************************************************)
Leaderboard ==
    LET shown == getLeaderboard(Store, 10)
    IN  IF Len(shown.result) = 0
        THEN /\ Commit(shown.store)
             /\ lastMsg' = Msg("leaderboard_empty", Null)
             /\ UNCHANGED <<lastChoices, interactionRequestMap, handlers, clock, calls>>
             /\ UNCHANGED <<pureVars, observe>>
        ELSE LET now == clock + 1
                 st == getCurrentRound(shown.store, now)
             IN  /\ Commit(st)
                 /\ Tick(st, now)
                 /\ lastMsg' = Msg("leaderboard", Null)
                 /\ UNCHANGED <<lastChoices, interactionRequestMap, handlers, calls>>
                 /\ UNCHANGED <<pureVars, observe>>

NextRound ==
    \/ Leaderboard
    \/ \E u \in Users : Start(u)
    \/ \E u \in Users : Choose(u, 1)
    \/ \E h \in HandlerIds : \E ch \in RoundChanges : \E cs \in SceneChoices(handlers[h].callNo) :
          TurnSceneReturns(h, ch, cs)
    \/ \E h \in HandlerIds : \E e \in RoundEndings : EndingReturns(h, e)
    \/ \E h \in HandlerIds : EndingSent(h)
    \/ \E h \in HandlerIds : SceneSent(h)
    \/ \E h \in HandlerIds : \E cs \in SceneChoices(handlers[h].callNo) :
          FirstSceneReturns(h, << >>, cs)

InitRound ==
    /\ SysInit
    /\ p_pc = "round"
    /\ p_state = createInitialState
    /\ p_changes = << >>
    /\ p_out = createInitialState
    /\ p_end = FALSE
    /\ p_score = 0
    /\ p_tier = "D"
    /\ observe = FALSE

SpecRound == InitRound /\ [][NextRound]_vars

(***************************************************************************)
(* Long games: the generator keeps resetting the clock and the turn        *)
(* counter, so that a game outlasts the cap of the action history.  One    *)
(* player plays turn after turn with /choose1 while the other enters a     *)
(* game at any moment.                                                     *)
(***************************************************************************)
HistoryChanges == {[time_remaining |-> 12, turn |-> 1]}

\* the player of the long game
LongPlayer == "u1"

NextHistory ==
    \/ \E u \in Users : Start(u)
    \/ Choose(LongPlayer, 1)
    \/ \E h \in HandlerIds : \E ch \in HistoryChanges :
       \E cs \in SceneChoices(handlers[h].callNo) : TurnSceneReturns(h, ch, cs)
    \/ \E h \in HandlerIds : SceneSent(h)
    \/ \E h \in HandlerIds : \E cs \in SceneChoices(handlers[h].callNo) :
          FirstSceneReturns(h, << >>, cs)

InitHistory ==
    /\ SysInit
    /\ p_pc = "history"
    /\ p_state = createInitialState
    /\ p_changes = << >>
    /\ p_out = createInitialState
    /\ p_end = FALSE
    /\ p_score = 0
    /\ p_tier = "D"
    /\ observe = FALSE

SpecHistory == InitHistory /\ [][NextHistory]_vars

(***************************************************************************)
(* Tips and restarts: games entered by a tip or by /start, every turn      *)
(* ending the game, button responses left out.                             *)
(***************************************************************************)
NextRegistry ==
    \/ \E u \in Users : Start(u)
    \/ \E u \in Users : \E sa \in SenderAddresses(u) : Tip(u, sa, botId, 1)
    \/ \E u \in Users : Choose(u, 1)
    \/ \E h \in HandlerIds : \E cs \in SceneChoices(handlers[h].callNo) :
          TurnSceneReturns(h, [system_access |-> 3], cs)
    \/ \E h \in HandlerIds : \E e \in RoundEndings : EndingReturns(h, e)
    \/ \E h \in HandlerIds : EndingSent(h)
    \/ \E h \in HandlerIds : SceneSent(h)
    \/ \E h \in HandlerIds : \E cs \in SceneChoices(handlers[h].callNo) :
          FirstSceneReturns(h, << >>, cs)
    \/ \E h \in HandlerIds : FirstSceneFails(h)
    \/ \E h \in HandlerIds : FirstSceneCleared(h)

InitRegistry == SysInit /\ PureOff /\ observe = FALSE

SpecRegistry == InitRegistry /\ [][NextRegistry]_vars

(***************************************************************************)
(* Properties of the pure state functions, checked under SpecPure.         *)
(***************************************************************************)
\* C1: from a state whose meters are in range, applyStateChanges returns,
\* for every delta (any subset of fields, values out of range included), a
\* state with time_remaining in 0..12, trust in -3..3, sanity and insight in
\* 0..100, system_access in 0..3 and morality in -100..100.
C1_MetersInRange ==
    (p_pc # "input" /\ InRange(p_state)) => InRange(p_out)

\* a delta proposing a trust below the range and a second value above its
\* range has been applied
C1_Witness ==
    /\ p_pc = "applied"
    /\ Has(p_changes, "trust") /\ p_changes.trust < -3
    /\ Has(p_changes, "insight") /\ p_changes.insight > 100
    /\ p_out.trust = -3
    /\ p_out.insight = 100

\* C3: whenever the state returned by applyStateChanges has turn < 10, it
\* has time_remaining >= 1 and system_access <= 2, whatever the delta
\* proposes.
C3_SafetyClamp ==
    (p_pc # "input" /\ p_out.turn < MIN_TURNS)
        => (p_out.time_remaining >= 1 /\ p_out.system_access <= 2)

\* C4: shouldEndGame is false for every state with turn < 10 and true for
\* every state with turn >= 10, whatever time_remaining and system_access.
C4_EndsExactlyFromMinTurns ==
    p_pc = "judged" => (p_end <=> p_out.turn >= MIN_TURNS)

\* C6: applyStateChanges returns a turn greater than or equal to the input
\* turn, for every state and every delta, a delta supplying a turn included.
C6_TurnNeverDecreases ==
    p_pc # "input" => p_out.turn >= p_state.turn

(***************************************************************************)
(* Properties of the turn engine, checked under Spec.                      *)
(***************************************************************************)
\* C2: whatever deltas the generator returns, no session is ended (ending
\* recorded by endSession) while its state.turn is below the minimum of 10.
C2_NoEndingBeforeMinTurns ==
    \A i \in 1..Len(heap) :
        heap[i].endingId # Null => heap[i].state.turn >= MIN_TURNS

\* C5: in every reachable state no session has state.turn greater than 20,
\* whatever the generator returns, a failure while producing the ending
\* included.
C5_TurnAtMostMax ==
    \A i \in 1..Len(heap) : heap[i].state.turn <= MAX_TURNS

\* C7: each offered choice set resolves at most one turn: of two handlers
\* that resolve the same session with actions taken from the same offered
\* choices, one of them at least started by a button click, and whose
\* generator calls overlap (both calls were issued from the same session
\* state, before either returned), at most one gets to advance the turn and
\* append its action.
C7_OneTurnPerOffer ==
    \A h1 \in HandlerIds : \A h2 \in HandlerIds :
        LET H1 == handlers[h1]
            H2 == handlers[h2]
            sameOffer == \E k \in 1..MaxCalls : \E cs \in SceneChoices(k) :
                            /\ \E i \in DOMAIN cs : cs[i] = H1.action
                            /\ \E i \in DOMAIN cs : cs[i] = H2.action
            \* a button response took one of the two keys of that offer's prompt
            clicked == \E k \in 1..Len(interactionRequestMap) :
                          LET e == interactionRequestMap[k]
                          IN  /\ \E i \in DOMAIN e.choices : e.choices[i] = H1.action
                              /\ \E id \in PromptIds(e) :
                                    IrmIndex(interactionRequestMap, id) = 0
        IN  (/\ h1 < h2
             /\ H1.kind = "turn" /\ H2.kind = "turn"
             /\ H1.session = H2.session
             /\ H1.snap = H2.snap
             /\ sameOffer
             /\ clicked)
            => ~(H1.pc # "scene" /\ H2.pc # "scene")

\* C8: a pending-interaction record is single-use: once a button response
\* has resolved a prompt (one of its two keys is consumed, a choice of the
\* prompt is in the player's action history, no handler is running), a
\* response echoing the prompt's form id or its alias event id is rejected
\* as a correlation miss.
C8_SingleUse ==
    handlers = << >> =>
        \A k \in 1..Len(interactionRequestMap) :
            LET e == interactionRequestMap[k]
                s == getSession(Store, e.userId)
                resolved ==
                    /\ \E id \in PromptIds(e) : IrmIndex(interactionRequestMap, id) = 0
                    /\ s # 0
                    /\ \E n \in DOMAIN arrays[heap[s].actionHistory] :
                          \E c \in DOMAIN e.choices :
                              arrays[heap[s].actionHistory][n] = e.choices[c]
            IN  resolved
                => \A id \in PromptIds(e) : \A cs \in ComponentSamples :
                      ResponseOutcome(interactionRequestMap, Store, e.userId, id, cs)
                          = "no_interaction_data"

\* C9: an accepted button response whose button has index i resolves the
\* turn with exactly the i-th string of the list stored for the prompt, and
\* no pending record of that prompt is left.
C9_IthChoiceAndRecordRemoved ==
    [][\A u \in Users : \A rid \in RequestIds : \A i \in 0..2 :
         LET cs == <<[id |-> "choice-" \o ToString(i), case |-> "button"]>>
             m == interactionRequestMap
             j == FindInteraction(m, rid)
         IN  (/\ ResponseOutcome(m, Store, u, rid, cs) = "accepted"
              /\ Click(u, rid, cs))
             => /\ handlers'[Len(handlers')].action = m[j].choices[i + 1]
                /\ \A k \in 1..Len(interactionRequestMap') :
                      interactionRequestMap'[k].key \notin PromptIds(m[j])
      ]_vars

(***************************************************************************)
(* Properties of the messages sent, checked under SpecObs.                 *)
(***************************************************************************)
\* C10: a button response that is rejected (no pending record, record of
\* another player, no active session, button index missing or out of range)
\* changes nothing: sessions, action histories, the pending-interaction map,
\* the rounds and the leaderboard are unchanged and no generator call is made.
C10_RejectedResponseChangesNothing ==
    [][lastMsg' \in {"no_interaction_data", "other_user", "no_active_game",
                     "invalid_button"}
         => UNCHANGED <<heap, arrays, activeSessions, rounds, currentRoundId,
                        leaderboard, lastChoices, interactionRequestMap,
                        handlers, calls>>
      ]_vars

\* a response naming a stored prompt of the player's own running game was
\* just rejected for its button
C10_Witness ==
    /\ lastMsg = "invalid_button"
    /\ interactionRequestMap # << >>
    /\ \E i \in 1..Len(heap) : heap[i].isActive

(***************************************************************************)
(* Failure of a turn, rounds and the session registry.                     *)
(***************************************************************************)
\* C11: when a generator call fails while a turn is processed (the scene
\* request or the ending request), the session's state is the one the turn
\* began with and the session is still active.
C11_FailedTurnLeavesState ==
    [][\A h \in HandlerIds :
         (TurnFails(h) /\ Len(handlers) = 1)
         => /\ heap[handlers[h].session].state = handlers[h].snap
            /\ heap[handlers[h].session].isActive
      ]_vars

\* C12: in every reachable state and for every round, no player identifier
\* is both in the round's activePlayers and in its completedPlayers.
C12_ActiveOrCompleted ==
    \A rid \in DOMAIN rounds :
        \A i \in 1..Len(rounds[rid].completedPlayers) :
            rounds[rid].completedPlayers[i].userId \notin rounds[rid].activePlayers

\* C13: endSession for a player with a registered session sets the session
\* inactive with its ending id and final score, takes the player out of the
\* round's activePlayers, records the result in completedPlayers, appends
\* exactly one leaderboard entry and leaves the round inactive; for an
\* identifier with no registered session it changes nothing.
C13_EndSessionEffect ==
    \A u \in Users : \A e \in Endings : \A score \in {0, 250} :
        LET ref == SessionAt(Store, u)
            st == endSession(Store, u, e, score, getTier(score), clock + 1)
            r == st.rounds[st.currentRoundId]
        IN  IF ref = 0 THEN st = Store
            ELSE /\ ~st.heap[ref].isActive
                 /\ st.heap[ref].endingId = <<e.ending_id>>
                 /\ st.heap[ref].finalScore = <<score>>
                 /\ u \notin r.activePlayers
                 /\ \E i \in 1..Len(r.completedPlayers) :
                       /\ r.completedPlayers[i].userId = u
                       /\ r.completedPlayers[i].result.final_score = score
                       /\ r.completedPlayers[i].result.ending_id = e.ending_id
                 /\ Len(st.leaderboard) = Len(leaderboard) + 1
                 /\ st.leaderboard[Len(st.leaderboard)].wallet = u
                 /\ st.leaderboard[Len(st.leaderboard)].score = score
                 /\ SubSeq(st.leaderboard, 1, Len(leaderboard)) = leaderboard
                 /\ ~r.isActive
                 /\ \A k \in 1..Len(heap) : k # ref => st.heap[k] = heap[k]

\* endSession has run for one player, who is out of activePlayers and in
\* completedPlayers of the closed round, while another player's session is
\* still registered and the first player's session is cleared
C13_Witness ==
    /\ currentRoundId # Null
    /\ ~rounds[currentRoundId].isActive
    /\ \E i \in 1..Len(heap) :
          /\ heap[i].endingId # Null
          /\ ~heap[i].isActive
          /\ heap[i].userId \notin rounds[currentRoundId].activePlayers
          /\ \E k \in 1..Len(rounds[currentRoundId].completedPlayers) :
                rounds[currentRoundId].completedPlayers[k].userId = heap[i].userId
          /\ SessionAt(Store, heap[i].userId) = 0
    /\ Len(leaderboard) = 1
    /\ \E u \in Users : SessionAt(Store, u) # 0

\* C14: once the current round is closed (inactive, with a completion) and
\* has no player still active, the next getCurrentRound, and so the next
\* createSession, uses a newly minted round with prize pool 0 and empty
\* player sets, not the closed round.
C14_ClosedRoundIsReplaced ==
    (/\ currentRoundId # Null
     /\ ~rounds[currentRoundId].isActive
     /\ Len(rounds[currentRoundId].completedPlayers) >= 1
     /\ rounds[currentRoundId].activePlayers = {})
    => LET st == getCurrentRound(Store, clock + 1)
       IN  /\ st.currentRoundId # currentRoundId
           /\ st.rounds[st.currentRoundId].prizePool = 0
           /\ st.rounds[st.currentRoundId].activePlayers = {}
           /\ st.rounds[st.currentRoundId].completedPlayers = << >>

(***************************************************************************)
(* Properties of the round winner, checked under SpecRound.                *)
(***************************************************************************)
\* C15: getRoundWinner returns null when the round is unknown or has no
\* completed player, and otherwise a completed player of the round whose
\* final_score is the maximum over the completed players of the round.
C15_WinnerHasMaxScore ==
    \A rid \in (DOMAIN rounds) \cup {<<"round", "none">>} :
        LET w == getRoundWinner(Store, rid)
        IN  IF rid \notin DOMAIN rounds \/ Len(rounds[rid].completedPlayers) = 0
            THEN w = Null
            ELSE LET cp == rounds[rid].completedPlayers
                 IN  /\ w # Null
                     /\ \E i \in 1..Len(cp) : cp[i] = w[1]
                     /\ \A j \in 1..Len(cp) :
                           cp[j].result.final_score <= w[1].result.final_score

\* two players completed in the round, the later one with the higher score
C15_Witness ==
    /\ currentRoundId # Null
    /\ Len(rounds[currentRoundId].completedPlayers) = 2
    /\ rounds[currentRoundId].completedPlayers[1].result.final_score = 250
    /\ rounds[currentRoundId].completedPlayers[2].result.final_score = 300
    /\ getRoundWinner(Store, currentRoundId)
         = <<rounds[currentRoundId].completedPlayers[2]>>

\* C16: when several completed players of a round share the maximum score,
\* getRoundWinner returns the one whose completion with that score happened
\* first (the leaderboard lists the completions in the order they happened).
C16_FirstToReachScoreWins ==
    \A rid \in DOMAIN rounds :
        LET cp == rounds[rid].completedPlayers
            w == getRoundWinner(Store, rid)
            \* the first completion of player u with the score now recorded
            Completion(u, score) ==
                CHOOSE k \in 1..Len(leaderboard) :
                    /\ leaderboard[k].wallet = u /\ leaderboard[k].score = score
                    /\ \A m \in 1..(k - 1) :
                          ~(leaderboard[m].wallet = u /\ leaderboard[m].score = score)
        IN  w # Null =>
               \A i \in 1..Len(cp) :
                   cp[i].result.final_score = w[1].result.final_score
                   => Completion(w[1].userId, w[1].result.final_score)
                        <= Completion(cp[i].userId, cp[i].result.final_score)

(***************************************************************************)
(* Prize accounting, checked under SpecObs.                                *)
(***************************************************************************)
\* C17: the step that creates a session adds its tip to the prize pool of
\* the current round and the player to the round's active set, and only then
\* leaves the first generator call pending; the failure of that call and the
\* clearing of the session leave the prize pool as it is.
C17_TipCountedBeforeGenerator ==
    [][/\ Len(heap') = Len(heap) + 1
          => LET s == heap'[Len(heap')]
                 r == rounds'[currentRoundId']
             IN  /\ r.prizePool = CurrentPool + s.tipAmount
                 /\ s.userId \in r.activePlayers
                 /\ handlers'[Len(handlers')].pc = "scene"
                 /\ handlers'[Len(handlers')].session = Len(heap')
       /\ \A h \in HandlerIds :
             (FirstSceneFails(h) \/ FirstSceneCleared(h))
             => rounds'[currentRoundId'].prizePool = CurrentPool
      ]_vars

\* a session entered with a tip was cleared after its first scene failed,
\* and the prize pool still holds the tip
C17_Witness ==
    /\ lastMsg = "none"
    /\ handlers = << >>
    /\ \E i \in 1..Len(heap) :
          /\ heap[i].tipAmount >= 1
          /\ heap[i].state = createInitialState
          /\ heap[i].isActive
          /\ SessionAt(Store, heap[i].userId) = 0
          /\ CurrentPool = heap[i].tipAmount

(***************************************************************************)
(* Properties of the session registry.                                     *)
(***************************************************************************)
\* C18: createSession called while an active session is registered under
\* the identity id or under the linked account id does not create or
\* register a session: the registry, the session objects and their action
\* histories are what they were.
C18_NoSecondSession ==
    \A u \in Users : \A addr \in {u} \cup SenderAddresses(u) : \A tip \in {0, 1} :
        LET byId == getSession(Store, u)
            byAddr == getSession(Store, addr)
            st == createSession(Store, u, addr, tip, clock + 1)
        IN  ((byId # 0 /\ heap[byId].isActive) \/ (byAddr # 0 /\ heap[byAddr].isActive))
            => /\ st.activeSessions = activeSessions
               /\ st.heap = heap
               /\ st.arrays = arrays

\* C19: as long as a session is registered, getSession of its identity id,
\* of its linked account id and of every letter-case variant of the linked
\* id return that same session object.
C19_LookupsConverge ==
    \A k \in DOMAIN activeSessions :
        LET ref == activeSessions[k]
        IN  /\ getSession(Store, heap[ref].userId) = ref
            /\ \A v \in Identifiers :
                  toLowerCase(v) = toLowerCase(heap[ref].smartAccountAddress)
                  => getSession(Store, v) = ref

\* C20: after clearSession(x), x the identity id or the linked account id
\* of a registered session, getSession returns nothing for both identifiers
\* of that session, and every registration of another player is kept.
C20_ClearRemovesBothSlots ==
    \A k \in DOMAIN activeSessions :
        LET ref == activeSessions[k]
        IN  \A x \in {heap[ref].userId, heap[ref].smartAccountAddress} :
               LET st == clearSession(Store, x)
               IN  /\ getSession(st, heap[ref].userId) = 0
                   /\ getSession(st, heap[ref].smartAccountAddress) = 0
                   /\ \A o \in DOMAIN activeSessions :
                         heap[activeSessions[o]].userId # heap[ref].userId
                         => /\ o \in DOMAIN st.activeSessions
                            /\ st.activeSessions[o] = activeSessions[o]

(***************************************************************************)
(* Ended sessions and their scores, checked under Spec.                    *)
(***************************************************************************)
\* C21: once a session has been ended (isActive false), its PlayerState,
\* action history, ending id and final score never change again, also when
\* another turn handler of the player was in flight as the session ended.
C21_EndedSessionFrozen ==
    [][\A i \in 1..Len(heap) :
          ~heap[i].isActive
          => /\ heap'[i] = heap[i]
             /\ arrays'[heap[i].actionHistory] = arrays[heap[i].actionHistory]
      ]_vars

\* C22: the score and tier recorded for an ending (on the session, in
\* completedPlayers and in the leaderboard entry) are computeScore of the
\* state of the session whose turn ended and getTier of that score; an
\* ending that differs only in proposed_score leads to the same records.
C22_ScoreIsComputed ==
    [][\A h \in HandlerIds : \A e \in Endings :
          EndingReturns(h, e)
          => LET H == handlers[h]
                 score == computeScore(heap[H.session].state)
                 ref == SessionAt(Store, H.userId)
                 cp == rounds'[currentRoundId'].completedPlayers
             IN  /\ \A e2 \in Endings :
                        e2.ending_id = e.ending_id => EndingReturns(h, e2)
                 /\ ref # 0 =>
                       /\ heap'[ref].finalScore = <<score>>
                       /\ \E k \in 1..Len(cp) :
                             /\ cp[k].userId = H.userId
                             /\ cp[k].result.final_score = score
                             /\ cp[k].result.tier = getTier(score)
                       /\ leaderboard'[Len(leaderboard')].score = score
                       /\ leaderboard'[Len(leaderboard')].tier = getTier(score)
      ]_vars

\* an ending was recorded with the computed score 250, which is neither of
\* the scores the generator may propose
C22_Witness ==
    /\ Len(leaderboard) = 1
    /\ leaderboard[1].score = 250
    /\ leaderboard[1].tier = "B"
    /\ \A e \in Endings : e.proposed_score # 250
    /\ \E i \in 1..Len(heap) :
          /\ heap[i].finalScore = <<250>>
          /\ computeScore(heap[i].state) = 250
    /\ \E h \in HandlerIds : handlers[h].pc = "endmsg"

\* C30: the leaderboard holds at most one entry per session id, also when
\* two turn handlers of the session are in flight as the game reaches its
\* end condition.
C30_OneEntryPerSession ==
    \A i \in 1..Len(leaderboard) : \A j \in 1..Len(leaderboard) :
        i # j => leaderboard[i].session_id # leaderboard[j].session_id

(***************************************************************************)
(* Overlapping turn handlers of one session, checked under Spec.           *)
(***************************************************************************)
Landed(H) == H.kind = "turn" /\ H.pc \in {"send", "ending"}

\* h2 is about to write while h1, which read the same pre-turn state, has
\* written already
SecondWriteLands(h1, h2) ==
    /\ h1 # h2
    /\ handlers[h1].session = handlers[h2].session
    /\ handlers[h1].snap = handlers[h2].snap
    /\ Landed(handlers[h1])
    /\ handlers[h2].kind = "turn"
    /\ handlers[h2].pc = "scene"
    /\ heap[handlers[h1].session].state # handlers[h1].snap
    /\ Len(handlers') = Len(handlers)
    /\ Landed(handlers'[h2])

RawTimesTen(state) ==
    1000 + 5 * state.insight + 500 * state.system_access + 200 * state.trust
    - 5 * (100 - state.sanity) + 2 * state.morality

\* C23: computeScore(state) is max(0, round(raw)) with halves rounded up,
\* depends on the five meters only and is never negative.
C23_ScoreFormula ==
    p_pc = "scored"
    => /\ p_score >= 0
       /\ IF RawTimesTen(p_state) < 5
          THEN p_score = 0
          ELSE /\ 10 * p_score - 5 <= RawTimesTen(p_state)
               /\ RawTimesTen(p_state) < 10 * p_score + 5
       /\ \A t \in ScoreSamples :
             (\A f \in {"insight", "system_access", "trust", "sanity", "morality"} :
                 t[f] = p_state[f])
             => computeScore(t) = p_score

\* a raw score of 100.5 is rounded up to 101
C23_Witness ==
    /\ p_pc = "scored"
    /\ RawTimesTen(p_state) = 1005
    /\ p_score = 101

\* C24: getTier maps a score >= 0 to S from 450, A for 350..449, B for
\* 250..349, C for 150..249 and D for 0..149.
C24_TierPartition ==
    (p_pc = "tiered" /\ p_score >= 0)
    => /\ p_tier \in {"S", "A", "B", "C", "D"}
       /\ p_tier = "S" <=> p_score >= 450
       /\ p_tier = "A" <=> (350 <= p_score /\ p_score <= 449)
       /\ p_tier = "B" <=> (250 <= p_score /\ p_score <= 349)
       /\ p_tier = "C" <=> (150 <= p_score /\ p_score <= 249)
       /\ p_tier = "D" <=> p_score <= 149

\* the boundary value 350 belongs to A
C24_Witness == p_pc = "tiered" /\ p_score = 350 /\ p_tier = "A"

\* the state of the worked example: turn 15, insight 80, system_access 3,
\* trust 2, sanity 40, morality 50
IsExampleState(state) ==
    /\ state.turn = 15
    /\ state.insight = 80
    /\ state.system_access = 3
    /\ state.trust = 2
    /\ state.sanity = 40
    /\ state.morality = 50

\* C25 (as stated): the example state scores 310 and its tier is A.
C25_ExampleTierA ==
    (p_pc = "scored" /\ IsExampleState(p_state))
    => (p_score = 310 /\ p_tier = "A")

\* C25 (amended): the example state scores 310 and its tier is B.
C25_ExampleTierB ==
    (p_pc = "scored" /\ IsExampleState(p_state))
    => (p_score = 310 /\ p_tier = "B")

C25_Witness ==
    /\ p_pc = "scored"
    /\ IsExampleState(p_state)
    /\ p_score = 310
    /\ p_tier = "B"

(***************************************************************************)
(* The frame of applyStateChanges, checked under SpecPure.                 *)
(***************************************************************************)
\* C26: applyStateChanges leaves a meter that is absent from the delta
\* unchanged, except that an absent time_remaining is decremented by one
\* and floored at 0; it sets turn to turn + 1 when the delta has no turn and
\* does not modify its input; the fresh state with {insight: 10} yields
\* turn 2, time_remaining 11, insight 10, and the game does not end on it.
C26_Frame ==
    [][/\ (p_pc = "input" /\ p_pc' = "applied")
          => /\ p_state' = p_state
             /\ \A f \in FieldNames \ {"time_remaining", "turn"} :
                   ~Has(p_changes, f) => p_out'[f] = p_state[f]
             /\ ~Has(p_changes, "time_remaining")
                   => p_out'.time_remaining = Max(0, p_state.time_remaining - 1)
             /\ ~Has(p_changes, "turn") => p_out'.turn = p_state.turn + 1
             /\ (p_state = createInitialState /\ p_changes = [insight |-> 10])
                   => p_out' = [time_remaining |-> 11, trust |-> 0, sanity |-> 100,
                                insight |-> 10, system_access |-> 0, morality |-> 0,
                                turn |-> 2]
       /\ (/\ p_pc = "applied"
           /\ p_pc' = "judged"
           /\ p_state = createInitialState
           /\ p_changes = [insight |-> 10])
          => p_end' = FALSE
      ]_vars

\* the example has been applied and judged
C26_Witness ==
    /\ p_pc = "judged"
    /\ p_state = createInitialState
    /\ p_changes = [insight |-> 10]
    /\ p_out.turn = 2
    /\ p_out.time_remaining = 11
    /\ p_out.insight = 10
    /\ ~p_end

(***************************************************************************)
(* The leaderboard, checked under SpecRound.                               *)
(***************************************************************************)
\* C27: the leaderboard is append-only (entries are added at the end, no
\* entry changes, moves or disappears) and getLeaderboard, which filters
\* to the current season, sorts by score descending and truncates to the
\* limit, leaves the stored leaderboard unchanged.
C27_AppendOnly ==
    [][/\ Len(leaderboard') >= Len(leaderboard)
       /\ SubSeq(leaderboard', 1, Len(leaderboard)) = leaderboard
       /\ \A limit \in 0..(Len(leaderboard) + 1) :
             LET got == getLeaderboard(Store, limit)
                 res == got.result
             IN  /\ got.store = Store
                 /\ Len(res) = Min(limit, Len(leaderboard))
                 /\ \A i \in 1..Len(res) :
                       /\ res[i].season_id = currentSeasonId
                       /\ \E k \in 1..Len(leaderboard) : leaderboard[k] = res[i]
                       /\ \A j \in 1..Len(res) : i < j => res[i].score >= res[j].score
                       /\ \A k \in 1..Len(leaderboard) :
                             (\A j \in 1..Len(res) : res[j] # leaderboard[k])
                             => leaderboard[k].score <= res[i].score
      ]_vars

\* the stored leaderboard is in order of completion, not of score, and the
\* ranking computed from it puts the later, higher score first
C27_Witness ==
    /\ Len(leaderboard) >= 2
    /\ leaderboard[1].score < leaderboard[2].score
    /\ getLeaderboard(Store, 1).result = <<leaderboard[2]>>

(***************************************************************************)
(* Termination of a game, checked under SpecLive.                          *)
(***************************************************************************)
\* C28: under fairness, if the player keeps submitting choices and every
\* generator call succeeds, the started session eventually ends, whatever
\* deltas the generator returns.
C28_EverySessionEnds == <>(p_pc = "ended")

(***************************************************************************)
(* The end of a game and the prompts left behind, checked under Spec.      *)
(***************************************************************************)
\* C31: the clearSession issued when the ending has been sent removes only
\* the session that ended: a session the player started meanwhile stays
\* registered, and no key is left pointing at the ended session.
C31_ClearRemovesOnlyEnded ==
    [][\A h \in HandlerIds :
          EndingSent(h)
          => /\ \A k \in DOMAIN activeSessions :
                   heap[activeSessions[k]].isActive
                   => /\ k \in DOMAIN activeSessions'
                      /\ activeSessions'[k] = activeSessions[k]
             /\ \A k \in DOMAIN activeSessions' :
                   activeSessions'[k] # handlers[h].session
      ]_vars

\* C32: only the prompt most recently offered to a player resolves a turn
\* by button click: no click is accepted on a prompt after which another
\* prompt was stored for the same player.
C32_OnlyLatestPrompt ==
    [][\A u \in Users : \A rid \in RequestIds : \A cs \in ComponentSamples :
          (/\ Click(u, rid, cs)
           /\ ResponseOutcome(interactionRequestMap, Store, u, rid, cs) = "accepted")
          => LET m == interactionRequestMap
                 i == FindInteraction(m, rid)
             IN  \A j \in (i + 1)..Len(m) :
                    m[j].userId = u => m[j].choices = m[i].choices
      ]_vars

\* C33: whenever no handler is in flight for a player, the state of the
\* player's registered active session does not meet the end condition.
C33_IdleSessionNotEnded ==
    \A u \in Users :
        (\A h \in HandlerIds : handlers[h].userId # u)
        => LET session == getSession(Store, u)
           IN  (session # 0 /\ heap[session].isActive)
               => ~shouldEndGame(heap[session].state)

(***************************************************************************)
(* The life of a round, checked under SpecRound.                           *)
(***************************************************************************)
\* C34: a round is active exactly when its completedPlayers map is empty;
\* it closes at its first completion, is never reactivated, and a later
\* completion in it is still recorded in completedPlayers and in the
\* leaderboard.
C34_ActiveIffNoCompletion ==
    [][/\ \A r \in DOMAIN rounds' :
             rounds'[r].isActive <=> Len(rounds'[r].completedPlayers) = 0
       /\ \A r \in DOMAIN rounds :
             ~rounds[r].isActive
             => /\ r \in DOMAIN rounds'
                /\ ~rounds'[r].isActive
                /\ Len(rounds'[r].completedPlayers) >= Len(rounds[r].completedPlayers)
       /\ \A h \in HandlerIds :
             (/\ handlers[h].pc = "ending"
              /\ Len(handlers') = Len(handlers)
              /\ handlers'[h].pc = "endmsg"
              /\ SessionAt(Store, handlers[h].userId) # 0)
             => LET cp == rounds'[currentRoundId'].completedPlayers
                    entry == leaderboard'[Len(leaderboard')]
                IN  /\ Len(leaderboard') = Len(leaderboard) + 1
                    /\ entry.wallet = handlers[h].userId
                    /\ \E k \in 1..Len(cp) :
                          /\ cp[k].userId = entry.wallet
                          /\ cp[k].result.final_score = entry.score
      ]_vars

\* a closed round holds a second completion, recorded in the leaderboard too
C34_Witness ==
    /\ currentRoundId # Null
    /\ ~rounds[currentRoundId].isActive
    /\ Len(rounds[currentRoundId].completedPlayers) = 2
    /\ Len(leaderboard) = 2
    /\ leaderboard[2].wallet = rounds[currentRoundId].completedPlayers[2].userId

(***************************************************************************)
(* The prize pool, checked under SpecObs.                                  *)
(***************************************************************************)
\* the receiver addresses that equal the bot id up to case
BotAddresses == {"0xB07", "0xb07"}

PoolOf(rs, r) == IF r \in DOMAIN rs THEN rs[r].prizePool ELSE 0

\* C35: a round's prize pool is never negative and grows only by the amount
\* of a tip to the bot, accepted while the round is the current one, be it
\* the tip of a created session or of a player with an active session; a
\* tip to another receiver changes no prize pool, session or round state.
C35_PoolIsSumOfTips ==
    [][/\ \A r \in DOMAIN rounds' :
             /\ rounds'[r].prizePool >= 0
             /\ PoolOf(rounds', r) >= PoolOf(rounds, r)
             /\ PoolOf(rounds', r) # PoolOf(rounds, r)
                => /\ r = currentRoundId'
                   /\ \E u \in Users : \E sa \in SenderAddresses(u) :
                      \E ra \in BotAddresses : \E amount \in TipAmounts :
                         /\ Tip(u, sa, ra, amount)
                         /\ PoolOf(rounds', r) = PoolOf(rounds, r) + amount
       /\ \A u \in Users : \A sa \in SenderAddresses(u) :
          \A ra \in ReceiverAddresses : \A amount \in TipAmounts :
             Tip(u, sa, ra, amount)
             => IF ra \in BotAddresses
                THEN PoolOf(rounds', currentRoundId') = CurrentPool + amount
                ELSE UNCHANGED <<storeVars, lastChoices, interactionRequestMap,
                                 handlers, clock, calls>>
      ]_vars

\* a tip of 1 created the session and a tip of 1 by the same, now active,
\* player was added: the pool is 2
C35_Witness ==
    /\ lastMsg = "tip_added"
    /\ Len(heap) = 1
    /\ heap[1].tipAmount = 1
    /\ heap[1].isActive
    /\ CurrentPool = 2

(***************************************************************************)
(* The prize pool of a closed round, checked under SpecRegistry.           *)
(***************************************************************************)
\* C36: once a round is closed (isActive false) its prize pool never
\* changes: later tips and session creations are not added to it.
C36_ClosedPoolFrozen ==
    [][\A r \in DOMAIN rounds :
          ~rounds[r].isActive => PoolOf(rounds', r) = PoolOf(rounds, r)
      ]_vars

(***************************************************************************)
(* The choice commands, checked under SpecObs.                             *)
(***************************************************************************)
\* C37: /chooseN of a player with an active session and at least N stored
\* choices starts one turn with the N-th of the choices last stored for the
\* player and removes no pending-interaction record; otherwise it only
\* sends an error and changes no session, round, leaderboard or
\* correlation state.
C37_ChooseTakesNth ==
    [][\A u \in Users : \A n \in 1..4 :
          Choose(u, n)
          => LET session == getSession(Store, u)
             IN  IF /\ session # 0
                    /\ heap[session].isActive
                    /\ MapHas(lastChoices, u)
                    /\ Len(lastChoices[u]) >= n
                 THEN /\ Len(handlers') = Len(handlers) + 1
                      /\ SubSeq(handlers', 1, Len(handlers)) = handlers
                      /\ handlers'[Len(handlers')].kind = "turn"
                      /\ handlers'[Len(handlers')].pc = "scene"
                      /\ handlers'[Len(handlers')].session = session
                      /\ handlers'[Len(handlers')].action = lastChoices[u][n]
                      /\ UNCHANGED <<storeVars, interactionRequestMap, lastChoices>>
                 ELSE /\ lastMsg' \in {"no_active_game", "choice_not_available"}
                      /\ UNCHANGED <<storeVars, interactionRequestMap, lastChoices,
                                     handlers>>
      ]_vars

\* /choose2 started a turn with the second stored choice; both records of
\* the prompt are still pending
C37_Witness ==
    \E h \in HandlerIds :
        /\ handlers[h].kind = "turn"
        /\ handlers[h].pc = "scene"
        /\ MapHas(lastChoices, handlers[h].userId)
        /\ Len(lastChoices[handlers[h].userId]) >= 2
        /\ handlers[h].action = lastChoices[handlers[h].userId][2]
        /\ Len(interactionRequestMap) = 2
        /\ \A i \in 1..2 : interactionRequestMap[i].userId = handlers[h].userId

(***************************************************************************)
(* /start and tips of a player who is already playing, under SpecObs.      *)
(***************************************************************************)
\* the session onTip finds: getSession(userId) || getSession(senderAddress)
ExistingSession(userId, senderAddress) ==
    IF getSession(Store, userId) # 0
    THEN getSession(Store, userId)
    ELSE getSession(Store, senderAddress)

\* C38: /start or a tip of a player who has an active session creates and
\* registers no session and leaves the session's state, its history and
\* the round's player sets unchanged; the tip only adds its amount to the
\* current round's prize pool and /start changes no state at all.
C38_NoSecondGame ==
    [][/\ \A u \in Users :
             (/\ Start(u)
              /\ getSession(Store, u) # 0
              /\ heap[getSession(Store, u)].isActive)
             => UNCHANGED <<storeVars, lastChoices, interactionRequestMap,
                            handlers, clock, calls>>
       /\ \A u \in Users : \A sa \in SenderAddresses(u) :
          \A ra \in BotAddresses : \A amount \in TipAmounts :
             (/\ Tip(u, sa, ra, amount)
              /\ ExistingSession(u, sa) # 0
              /\ heap[ExistingSession(u, sa)].isActive)
             => /\ UNCHANGED <<heap, arrays, activeSessions, currentRoundId,
                               leaderboard, lastChoices, interactionRequestMap,
                               handlers, calls>>
                /\ rounds' = [rounds EXCEPT ![currentRoundId].prizePool = @ + amount]
      ]_vars

\* a player who entered with /start tipped 1 and then sent /start again:
\* still one session, the pool holds the tip
C38_Witness ==
    /\ lastMsg = "already_active"
    /\ Len(heap) = 1
    /\ heap[1].isActive
    /\ heap[1].tipAmount = 0
    /\ CurrentPool = 1

C40_ScoreAtMost380 ==
    p_pc = "scored"
    => /\ InRange(p_state)
       /\ 0 <= p_score
       /\ p_score <= 380
       /\ p_tier # "S"

\* every meter at its best value: the score is 380 and the tier is A
C40_Witness ==
    /\ p_pc = "scored"
    /\ p_state.insight = 100
    /\ p_state.system_access = 3
    /\ p_state.trust = 3
    /\ p_state.sanity = 100
    /\ p_state.morality = 100
    /\ p_score = 380
    /\ p_tier = "A"

====
